---------------------------- MODULE Spec2Model ----------------------------
(***************************************************************************)
(* Model of the two programs of the repository:                            *)
(*   Task 2/price_storage_contract.py : price_storage_contract             *)
(*   Task 1/gas_price_analysis.py     : estimate_price,                    *)
(*                                      extrapolate_future_prices          *)
(*                                                                         *)
(* Conventions.                                                            *)
(*  - A calendar date (a pandas Timestamp at midnight) is a triple         *)
(*    <<year, month, day>>; dates are compared through toordinal, the      *)
(*    proleptic Gregorian day number of datetime.                          *)
(*  - Prices are floats in the source.  Here a price is an integer number  *)
(*    of tenths of a currency unit and every monetary total is carried in  *)
(*    tenths (Tenths), so the arithmetic is exact; rounding of binary      *)
(*    floating point is outside the model.                                 *)
(*  - Python sequences are 0-based, TLA+ sequences 1-based: an index k of  *)
(*    the model is the index k-1 of the source.                            *)
(***************************************************************************)
EXTENDS Integers, Sequences, FiniteSets, TLC

VARIABLES
    \* ---- price_storage_contract: arguments
    injection_dates, withdrawal_dates, purchase_prices, sale_prices,
    injection_rate, withdrawal_rate, max_storage,
    storage_cost, injection_withdrawal_cost, transportation_cost,
    \* ---- price_storage_contract: locals
    all_dates, i, pc, volume,
    total_purchase_cost, total_sales_revenue, total_storage_cost,
    total_injection_withdrawal_cost, total_transportation_cost,
    contract_value,
    \* ---- price_storage_contract: what the caller observes besides the value
    diagnostics, error,
    \* ---- history of the loop (not program state)
    visited, trace, si, sw,
    \* ---- gas_price_analysis: the caller's DataFrame and the calls made on it
    data, ncalls, last_call, result, branch, figures

args == <<injection_dates, withdrawal_dates, purchase_prices, sale_prices,
          injection_rate, withdrawal_rate, max_storage,
          storage_cost, injection_withdrawal_cost, transportation_cost>>

totals == <<total_purchase_cost, total_sales_revenue,
            total_injection_withdrawal_cost, total_transportation_cost>>

contractVars == <<args, all_dates, i, pc, volume, totals, total_storage_cost,
                  contract_value, diagnostics, error, visited, trace, si, sw>>

priceVars == <<data, ncalls, last_call, result, branch, figures>>

vars == <<contractVars, priceVars>>

---------------------------------------------------------------------------
(* Bounds of the model.                                                    *)

MaxLen == 2          \* longest injection / withdrawal schedule
MaxRate == 2         \* largest injection_rate / withdrawal_rate
MaxStorage == 3      \* largest max_storage

---------------------------------------------------------------------------
(* Calendar (datetime / pandas).                                           *)

Range(s) == {s[k] : k \in DOMAIN s}

IsLeap(y) == (y % 4 = 0) /\ ((y % 100 # 0) \/ (y % 400 = 0))

DaysInMonth(y, m) ==
    IF m = 2 THEN (IF IsLeap(y) THEN 29 ELSE 28)
    ELSE IF m \in {4, 6, 9, 11} THEN 30 ELSE 31

RECURSIVE DaysBeforeMonth(_, _)
DaysBeforeMonth(y, m) ==
    IF m = 1 THEN 0 ELSE DaysBeforeMonth(y, m - 1) + DaysInMonth(y, m - 1)

DaysBeforeYear(y) ==
    (y - 1) * 365 + ((y - 1) \div 4) - ((y - 1) \div 100) + ((y - 1) \div 400)

\* Timestamp.toordinal()
toordinal(d) == DaysBeforeYear(d[1]) + DaysBeforeMonth(d[1], d[2]) + d[3]

DateLE(a, b) == toordinal(a) <= toordinal(b)
DateLT(a, b) == toordinal(a) < toordinal(b)

\* DatetimeIndex.min() / .max() of a non-empty index
MinDate(s) == CHOOSE d \in Range(s) : \A e \in Range(s) : DateLE(d, e)
MaxDate(s) == CHOOSE d \in Range(s) : \A e \in Range(s) : DateLE(e, d)

MonthEnd(y, m) == <<y, m, DaysInMonth(y, m)>>

\* The month k months after month m of year y, as <<year, month>>
MonthPlus(y, m, k) ==
    LET t == y * 12 + (m - 1) + k IN <<t \div 12, (t % 12) + 1>>

\* d + pd.DateOffset(months=k): the same day k months on, cut to the length
\* of that month
AddMonths(d, k) ==
    LET ym == MonthPlus(d[1], d[2], k)
        dim == DaysInMonth(ym[1], ym[2])
    IN  <<ym[1], ym[2], IF d[3] > dim THEN dim ELSE d[3]>>

\* pd.date_range(start, periods=n, freq='M'): start rolled forward to a month
\* end, then the month ends that follow
DateRangePeriods(start, n) ==
    [k \in 1..n |->
        LET ym == MonthPlus(start[1], start[2], k - 1) IN MonthEnd(ym[1], ym[2])]

\* pd.date_range(start=, end=, freq='M'): the month ends in [start, end]
DateRangeMonthEnds(start, end) ==
    {e \in {MonthEnd(y, m) : y \in start[1]..end[1], m \in 1..12} :
        DateLE(start, e) /\ DateLE(e, end)}

\* sorted(S) for a set of Timestamps
RECURSIVE SortedSeq(_)
SortedSeq(S) ==
    IF S = {} THEN << >>
    ELSE LET m == CHOOSE x \in S : \A y \in S : DateLE(x, y)
         IN  <<m>> \o SortedSeq(S \ {m})

---------------------------------------------------------------------------
(* price_storage_contract                                                  *)

\* A float amount of currency, in tenths
Tenths(x) == 10 * x

\* The example usage (lines 79-88 of price_storage_contract.py)
ExInjectionRate == 1000000
ExWithdrawalRate == 1000000
ExMaxStorage == 3000000
ExStorageCost == 100000
ExInjectionWithdrawalCost == 10000
ExTransportationCost == 50000
ExInjectionDates == << <<2023, 5, 1>>, <<2023, 5, 2>>, <<2023, 5, 3>> >>
ExWithdrawalDates == << <<2023, 11, 1>>, <<2023, 11, 2>>, <<2023, 11, 3>> >>
ExPurchasePrices == <<20, 21, 22>>
ExSalePrices == <<30, 31, 32>>

\* all_dates = sorted(set(injection_dates) | set(withdrawal_dates))
AllDates(inj, wd) == SortedSeq(Range(inj) \cup Range(wd))

\* Faulty variant of FirstIndex: the last position holding d
LastIndex(s, d) ==
    CHOOSE k \in DOMAIN s : s[k] = d /\ \A j \in (k + 1)..Len(s) : s[j] # d

\* list(dates).index(d): the first position holding d
FirstIndex(s, d) ==
    CHOOSE k \in DOMAIN s : s[k] = d /\ \A j \in 1..(k - 1) : s[j] # d

\* Faulty variant of Phases: the withdrawal check ahead of the injection check
PhasesSwapped == <<"wd", "inj">>

\* The two checks of one loop iteration, in program order
Phases == <<"inj", "wd">>

\* Faulty variant of CanInject: the rate is not taken off the capacity
CanInjectUpToCapacity(v, ms, rate) == v <= ms

\* volume <= max_storage - injection_rate
CanInject(v, ms, rate) == v <= ms - rate

\* volume >= withdrawal_rate
CanWithdraw(v, rate) == v >= rate

\* Faulty variant of StorageDuration: the calendar months touched by [start, end]
MonthsTouched(start, end) ==
    IF DateLE(start, end)
    THEN (end[1] * 12 + end[2]) - (start[1] * 12 + start[2]) + 1
    ELSE 0

\* storage_duration = pd.date_range(start, end, freq='M').size
StorageDuration(start, end) == Cardinality(DateRangeMonthEnds(start, end))

current_date == all_dates[i]

\* No exception has been raised
NoError == [type |-> "none", line |-> 0]

\* The running volume and the four accumulators of the loop
Snapshot == <<volume, total_purchase_cost, total_sales_revenue,
              total_injection_withdrawal_cost, total_transportation_cost>>

\* One attempted event of the loop: which check, at which iteration, for which
\* date, the list position it read, whether it went through, and the
\* accumulators before and after it
Event(kind, index, ok, before, after) ==
    [date |-> current_date, iter |-> i, kind |-> kind, index |-> index,
     ok |-> ok, before |-> before, after |-> after]

\* Where control goes after the check p of the current iteration
NextPc(p) ==
    IF p = Phases[1] THEN Phases[2]
    ELSE IF i < Len(all_dates) THEN Phases[1] ELSE "cost"

NextI(p) == IF p = Phases[1] \/ i = Len(all_dates) THEN i ELSE i + 1

\* The dates the loop has taken as current_date, in order
Visit(p) == IF p = Phases[1] THEN Append(visited, current_date) ELSE visited


\* ---- inputs the model draws the arguments from

DateChoices == {<<2023, 5, 30>>, <<2023, 5, 31>>, <<2023, 7, 1>>}

Schedules == UNION {[1..n -> DateChoices] : n \in 0..MaxLen}

\* Price lists of length n whose entries differ from position to position:
\* purchase prices rising or falling along the list, sale prices rising
PurchasePriceLists(n) ==
    IF n = 0 THEN {<< >>}
    ELSE {[k \in 1..n |-> 20 + k], [k \in 1..n |-> 30 - k]}

SalePriceLists(n) == {[k \in 1..n |-> 30 + k]}

IdlePrice ==
    /\ data = [Dates |-> << >>, Prices |-> << >>]
    /\ ncalls = 0
    /\ last_call = [fn |-> "none", arg |-> 0]
    /\ result = [tag |-> "none"]
    /\ branch = "none"
    /\ figures = 0

\* Lines 35-40, and all_dates of line 33
EnterLoop ==
    /\ all_dates = AllDates(injection_dates, withdrawal_dates)
    /\ i = 1
    /\ pc = IF all_dates = << >> THEN "cost" ELSE Phases[1]
    /\ volume = 0
    /\ total_purchase_cost = 0
    /\ total_sales_revenue = 0
    /\ total_storage_cost = 0
    /\ total_injection_withdrawal_cost = 0
    /\ total_transportation_cost = 0
    /\ contract_value = 0
    /\ diagnostics = << >>
    /\ error = NoError
    /\ visited = << >>
    /\ trace = << >>
    /\ si = 0
    /\ sw = 0

\* The call of the example usage
ExampleCall ==
    /\ injection_dates = ExInjectionDates
    /\ withdrawal_dates = ExWithdrawalDates
    /\ purchase_prices = ExPurchasePrices
    /\ sale_prices = ExSalePrices
    /\ injection_rate = ExInjectionRate
    /\ withdrawal_rate = ExWithdrawalRate
    /\ max_storage = ExMaxStorage

\* Any call within the bounds
BoundedCall ==
    /\ injection_dates \in Schedules
    /\ withdrawal_dates \in Schedules
    /\ purchase_prices \in PurchasePriceLists(Len(injection_dates))
    /\ sale_prices \in SalePriceLists(Len(withdrawal_dates))
    /\ injection_rate \in 1..MaxRate
    /\ withdrawal_rate \in 1..MaxRate
    /\ max_storage \in 1..MaxStorage

Init ==
    /\ ExampleCall \/ BoundedCall
    /\ storage_cost = Tenths(ExStorageCost)
    /\ injection_withdrawal_cost = Tenths(ExInjectionWithdrawalCost)
    /\ transportation_cost = Tenths(ExTransportationCost)
    /\ EnterLoop
    /\ IdlePrice

\* Lines 45-51: the date is an injection date and there is room
InjectionPerformed ==
    /\ pc = "inj"
    /\ current_date \in Range(injection_dates)
    /\ CanInject(volume, max_storage, injection_rate)
    /\ LET index == FirstIndex(injection_dates, current_date) IN
        /\ volume' = volume + injection_rate
        /\ total_purchase_cost' =
               total_purchase_cost + injection_rate * purchase_prices[index]
        /\ total_injection_withdrawal_cost' =
               total_injection_withdrawal_cost + injection_withdrawal_cost
        /\ total_transportation_cost' =
               total_transportation_cost + transportation_cost
        /\ UNCHANGED total_sales_revenue
        /\ trace' = Append(trace, Event("inj", index, TRUE, Snapshot, Snapshot'))
    /\ si' = si + 1
    /\ visited' = Visit("inj")
    /\ pc' = NextPc("inj")
    /\ i' = NextI("inj")
    /\ UNCHANGED <<args, all_dates, total_storage_cost,
                   contract_value, diagnostics, error, sw, priceVars>>

\* Faulty variant of InjectionSkipped: the per-operation costs are accrued although
\* the injection is refused
InjectionSkippedCharged ==
    /\ pc = "inj"
    /\ current_date \in Range(injection_dates)
    /\ ~CanInject(volume, max_storage, injection_rate)
    /\ diagnostics' =
           Append(diagnostics, <<"Insufficient storage space on", current_date>>)
    /\ total_injection_withdrawal_cost' =
           total_injection_withdrawal_cost + injection_withdrawal_cost
    /\ total_transportation_cost' =
           total_transportation_cost + transportation_cost
    /\ UNCHANGED <<volume, total_purchase_cost, total_sales_revenue>>
    /\ trace' = Append(trace, Event("inj", FirstIndex(injection_dates, current_date),
                                     FALSE, Snapshot, Snapshot'))
    /\ visited' = Visit("inj")
    /\ pc' = NextPc("inj")
    /\ i' = NextI("inj")
    /\ UNCHANGED <<args, all_dates, total_storage_cost,
                   contract_value, error, si, sw, priceVars>>

\* Lines 45-47, 52-53: the date is an injection date and there is no room
InjectionSkipped ==
    /\ pc = "inj"
    /\ current_date \in Range(injection_dates)
    /\ ~CanInject(volume, max_storage, injection_rate)
    /\ diagnostics' =
           Append(diagnostics, <<"Insufficient storage space on", current_date>>)
    /\ UNCHANGED <<volume, totals>>
    /\ trace' = Append(trace, Event("inj", FirstIndex(injection_dates, current_date),
                                     FALSE, Snapshot, Snapshot'))
    /\ visited' = Visit("inj")
    /\ pc' = NextPc("inj")
    /\ i' = NextI("inj")
    /\ UNCHANGED <<args, all_dates, total_storage_cost,
                   contract_value, error, si, sw, priceVars>>

\* Line 45, condition false
NoInjection ==
    /\ pc = "inj"
    /\ current_date \notin Range(injection_dates)
    /\ visited' = Visit("inj")
    /\ pc' = NextPc("inj")
    /\ i' = NextI("inj")
    /\ UNCHANGED <<args, all_dates, volume, totals, total_storage_cost,
                   contract_value, diagnostics, error, trace, si, sw, priceVars>>

\* Lines 55-61: the date is a withdrawal date and enough gas is stored
WithdrawalPerformed ==
    /\ pc = "wd"
    /\ current_date \in Range(withdrawal_dates)
    /\ CanWithdraw(volume, withdrawal_rate)
    /\ LET index == FirstIndex(withdrawal_dates, current_date) IN
        /\ volume' = volume - withdrawal_rate
        /\ total_sales_revenue' =
               total_sales_revenue + withdrawal_rate * sale_prices[index]
        /\ total_injection_withdrawal_cost' =
               total_injection_withdrawal_cost + injection_withdrawal_cost
        /\ total_transportation_cost' =
               total_transportation_cost + transportation_cost
        /\ UNCHANGED total_purchase_cost
        /\ trace' = Append(trace, Event("wd", index, TRUE, Snapshot, Snapshot'))
    /\ sw' = sw + 1
    /\ visited' = Visit("wd")
    /\ pc' = NextPc("wd")
    /\ i' = NextI("wd")
    /\ UNCHANGED <<args, all_dates, total_storage_cost,
                   contract_value, diagnostics, error, si, priceVars>>

\* Lines 55-57, 62-63: the date is a withdrawal date and too little is stored
WithdrawalSkipped ==
    /\ pc = "wd"
    /\ current_date \in Range(withdrawal_dates)
    /\ ~CanWithdraw(volume, withdrawal_rate)
    /\ diagnostics' =
           Append(diagnostics, <<"Insufficient gas stored on", current_date>>)
    /\ UNCHANGED <<volume, totals>>
    /\ trace' = Append(trace, Event("wd", FirstIndex(withdrawal_dates, current_date),
                                     FALSE, Snapshot, Snapshot'))
    /\ visited' = Visit("wd")
    /\ pc' = NextPc("wd")
    /\ i' = NextI("wd")
    /\ UNCHANGED <<args, all_dates, total_storage_cost,
                   contract_value, error, si, sw, priceVars>>

\* Line 55, condition false
NoWithdrawal ==
    /\ pc = "wd"
    /\ current_date \notin Range(withdrawal_dates)
    /\ visited' = Visit("wd")
    /\ pc' = NextPc("wd")
    /\ i' = NextI("wd")
    /\ UNCHANGED <<args, all_dates, volume, totals, total_storage_cost,
                   contract_value, diagnostics, error, trace, si, sw, priceVars>>

\* Line 66 when a schedule is empty: min() or max() of the empty index is NaT
\* and pd.date_range raises ValueError("Neither `start` nor `end` can be NaT")
StorageDurationRaises ==
    /\ pc = "cost"
    /\ injection_dates = << >> \/ withdrawal_dates = << >>
    /\ pc' = "error"
    /\ error' = [type |-> "ValueError", line |-> 66]
    /\ UNCHANGED <<args, all_dates, i, volume, totals, total_storage_cost,
                   contract_value, diagnostics, visited, trace, si, sw,
                   priceVars>>

\* Lines 66-76
ComputeValue ==
    /\ pc = "cost"
    /\ injection_dates # << >> /\ withdrawal_dates # << >>
    /\ LET storage_duration ==
               StorageDuration(MinDate(injection_dates), MaxDate(withdrawal_dates))
       IN  /\ total_storage_cost' = storage_cost * storage_duration
           /\ contract_value' = total_sales_revenue
                                   - total_purchase_cost
                                   - storage_cost * storage_duration
                                   - total_injection_withdrawal_cost
                                   - total_transportation_cost
    /\ pc' = "done"
    /\ UNCHANGED <<args, all_dates, i, volume, totals, diagnostics, error,
                   visited, trace, si, sw, priceVars>>

Next ==
    \/ InjectionPerformed
    \/ InjectionSkipped
    \/ NoInjection
    \/ WithdrawalPerformed
    \/ WithdrawalSkipped
    \/ NoWithdrawal
    \/ StorageDurationRaises
    \/ ComputeValue

Spec == Init /\ [][Next]_vars


---------------------------------------------------------------------------
(* gas_price_analysis: estimate_price and extrapolate_future_prices        *)

MaxPoints == 3       \* longest price series
MaxMonths == 2       \* largest months argument
MaxCalls == 2        \* calls made on one DataFrame

\* A float computed from integers is kept exact, as <<numerator, denominator>>
\* with a positive denominator
Rat(n, d) == IF d < 0 THEN <<-n, -d>> ELSE <<n, d>>

RECURSIVE SumSeq(_)
SumSeq(s) == IF s = << >> THEN 0 ELSE Head(s) + SumSeq(Tail(s))

\* df[name] = values: the column is added to, or replaced in, the frame
SetColumn(df, name, values) ==
    [c \in DOMAIN df \cup {name} |-> IF c = name THEN values ELSE df[c]]

\* data['Dates'].apply(lambda x: x.toordinal())
OrdinalColumn(dates) == [k \in DOMAIN dates |-> toordinal(dates[k])]

\* np.arange(n)
Arange(n) == [k \in 1..n |-> k - 1]

\* Faulty variant of InRange: the two ends of the range are left out
InRangeOpen(lo, d, hi) == DateLT(lo, d) /\ DateLT(d, hi)

\* data['Dates'].min() <= input_date <= data['Dates'].max()
InRange(lo, d, hi) == DateLE(lo, d) /\ DateLE(d, hi)

\* np.interp(x, xp, fp) for an increasing xp: the ends are held outside the
\* range, an x equal to some xp[j] gives fp[j] itself, and any other x is
\* taken on the segment that brackets it
Interp(x, xp, fp) ==
    LET n == Len(xp) IN
    IF x > xp[n] THEN Rat(fp[n], 1)
    ELSE IF x < xp[1] THEN Rat(fp[1], 1)
    ELSE LET j == CHOOSE k \in 1..n :
                      xp[k] <= x /\ \A l \in (k + 1)..n : xp[l] > x
         IN  IF j = n THEN Rat(fp[j], 1)
             ELSE IF xp[j] = x THEN Rat(fp[j], 1)
             ELSE Rat((fp[j + 1] - fp[j]) * (x - xp[j])
                          + fp[j] * (xp[j + 1] - xp[j]),
                      xp[j + 1] - xp[j])

\* LinearRegression().fit(X, y): ordinary least squares on centred data, kept
\* as the sums that give the slope sab/saa and the means
Fit(X, y) ==
    LET n == Len(X)
        sx == SumSeq(X)
        sy == SumSeq(y)
    IN  [n |-> n, sx |-> sx, sy |-> sy,
         saa |-> SumSeq([k \in 1..n |-> (n * X[k] - sx) * (n * X[k] - sx)]),
         sab |-> SumSeq([k \in 1..n |-> (n * X[k] - sx) * (n * y[k] - sy)])]

\* model.predict at one x: mean(y) + slope * (x - mean(X)); the slope is 0
\* when all X are equal
PredictOne(model, x) ==
    IF model.saa = 0 THEN Rat(model.sy, model.n)
    ELSE Rat(model.sy * model.saa + model.sab * (model.n * x - model.sx),
             model.n * model.saa)

NoResult == [tag |-> "none"]

\* ---- inputs the model draws the series and the calls from

SeriesDates ==
    {<<2023, 11, 15>>, <<2023, 12, 31>>, <<2024, 1, 31>>, <<2024, 2, 29>>}

QueryDates ==
    SeriesDates \cup {<<2023, 11, 1>>, <<2023, 12, 1>>, <<2024, 3, 15>>}

SeriesPrices == {20, 23}

IdleContract ==
    /\ injection_dates = << >>
    /\ withdrawal_dates = << >>
    /\ purchase_prices = << >>
    /\ sale_prices = << >>
    /\ injection_rate = ExInjectionRate
    /\ withdrawal_rate = ExWithdrawalRate
    /\ max_storage = ExMaxStorage
    /\ storage_cost = Tenths(ExStorageCost)
    /\ injection_withdrawal_cost = Tenths(ExInjectionWithdrawalCost)
    /\ transportation_cost = Tenths(ExTransportationCost)
    /\ all_dates = << >>
    /\ i = 1
    /\ pc = "idle"
    /\ volume = 0
    /\ total_purchase_cost = 0
    /\ total_sales_revenue = 0
    /\ total_storage_cost = 0
    /\ total_injection_withdrawal_cost = 0
    /\ total_transportation_cost = 0
    /\ contract_value = 0
    /\ diagnostics = << >>
    /\ error = NoError
    /\ visited = << >>
    /\ trace = << >>
    /\ si = 0
    /\ sw = 0

InitPrice ==
    /\ IdleContract
    /\ \E S \in SUBSET SeriesDates :
          /\ Cardinality(S) \in 1..MaxPoints
          /\ \E ps \in [1..Cardinality(S) -> SeriesPrices] :
                data = [Dates |-> SortedSeq(S), Prices |-> ps]
    /\ ncalls = 0
    /\ last_call = [fn |-> "none", arg |-> 0]
    /\ result = NoResult
    /\ branch = "none"
    /\ figures = 0

\* Lines 85-93: the query date is within the observed range
EstimateInterpolates(input_date) ==
    /\ ncalls < MaxCalls
    /\ InRange(MinDate(data.Dates), input_date, MaxDate(data.Dates))
    /\ data' = SetColumn(data, "Date_ordinal", OrdinalColumn(data.Dates))
    /\ branch' = "interp"
    /\ result' = [tag |-> "float",
                  value |-> Interp(toordinal(input_date),
                                   data'.Date_ordinal, data'.Prices)]
    /\ last_call' = [fn |-> "estimate_price", arg |-> input_date]
    /\ ncalls' = ncalls + 1
    /\ UNCHANGED <<figures, contractVars>>

\* Lines 85-91, 94-102: the query date is outside the observed range
EstimateRegresses(input_date) ==
    /\ ncalls < MaxCalls
    /\ ~InRange(MinDate(data.Dates), input_date, MaxDate(data.Dates))
    /\ data' = SetColumn(data, "Date_ordinal", OrdinalColumn(data.Dates))
    /\ branch' = "regression"
    /\ result' = [tag |-> "float",
                  value |-> PredictOne(Fit(data'.Date_ordinal, data'.Prices),
                                       toordinal(input_date))]
    /\ last_call' = [fn |-> "estimate_price", arg |-> input_date]
    /\ ncalls' = ncalls + 1
    /\ UNCHANGED <<figures, contractVars>>

\* Lines 50-58 with months = 0: future_time has shape (0, 1) and
\* model.predict raises ValueError (an array of 0 samples, at least 1 needed)
ExtrapolateRaises ==
    /\ ncalls < MaxCalls
    /\ data' = SetColumn(data, "Time", Arange(Len(data.Dates)))
    /\ result' = [tag |-> "raise", type |-> "ValueError", line |-> 58]
    /\ last_call' = [fn |-> "extrapolate_future_prices", arg |-> 0]
    /\ ncalls' = ncalls + 1
    /\ UNCHANGED <<branch, figures, contractVars>>

\* Lines 50-73 with months >= 1
ExtrapolateReturns(months) ==
    /\ ncalls < MaxCalls
    /\ months >= 1
    /\ data' = SetColumn(data, "Time", Arange(Len(data.Dates)))
    /\ LET model == Fit(data'.Time, data'.Prices)
           n == Len(data.Dates)
           future_time == [k \in 1..months |-> n + k - 1]
           future_prices == [k \in 1..months |-> PredictOne(model, future_time[k])]
           future_dates == DateRangePeriods(AddMonths(MaxDate(data.Dates), 1), months)
       IN  result' = [tag |-> "DataFrame", Dates |-> future_dates,
                      Prices |-> future_prices]
    /\ figures' = figures + 1
    /\ last_call' = [fn |-> "extrapolate_future_prices", arg |-> months]
    /\ ncalls' = ncalls + 1
    /\ UNCHANGED <<branch, contractVars>>

NextPrice ==
    \/ \E input_date \in QueryDates : EstimateInterpolates(input_date)
    \/ \E input_date \in QueryDates : EstimateRegresses(input_date)
    \/ ExtrapolateRaises
    \/ \E months \in 1..MaxMonths : ExtrapolateReturns(months)

SpecPrice == InitPrice /\ [][NextPrice]_vars

---------------------------------------------------------------------------
(* Properties of price_storage_contract                                    *)

Finished == pc \in {"done", "error"}

LoopOver == pc \in {"cost", "done", "error"}

Skipped == {k \in DOMAIN trace : ~trace[k].ok}

\* C1: a refused injection or withdrawal leaves volume and the four
\* accumulators as they were, a diagnostic naming its date is printed, and
\* the call goes on through every remaining date and returns a value.
C1_SkipNonFatalAndReturns ==
    \A k \in Skipped :
        /\ trace[k].after = trace[k].before
        /\ \E n \in DOMAIN diagnostics : diagnostics[n][2] = trace[k].date
        /\ Finished => (pc = "done" /\ visited = all_dates)

\* C1, the part about the loop alone: a refused event changes nothing, is
\* reported with its date, and the loop still visits every date.
C1_SkipChangesNothing ==
    \A k \in Skipped :
        /\ trace[k].after = trace[k].before
        /\ \E n \in DOMAIN diagnostics : diagnostics[n][2] = trace[k].date
        /\ LoopOver => visited = all_dates

\* C2: 0 <= volume <= max_storage in every state of the loop: initially,
\* between the two checks of a date, and after each date.
C2_VolumeWithinCapacity ==
    /\ 0 <= volume /\ volume <= max_storage
    /\ \A k \in DOMAIN trace :
           0 <= trace[k].after[1] /\ trace[k].after[1] <= max_storage

\* C2 witness: the call is over, an injection was refused for lack of room
\* and a withdrawal was refused for lack of gas, and the store was once full.
C2_Witness ==
    /\ pc = "done"
    /\ \E k \in Skipped : trace[k].kind = "inj"
    /\ \E k \in Skipped : trace[k].kind = "wd"
    /\ \E k \in DOMAIN trace : trace[k].ok /\ trace[k].after[1] = max_storage

IsExample ==
    /\ injection_dates = ExInjectionDates
    /\ withdrawal_dates = ExWithdrawalDates
    /\ purchase_prices = ExPurchasePrices
    /\ sale_prices = ExSalePrices
    /\ injection_rate = ExInjectionRate
    /\ withdrawal_rate = ExWithdrawalRate
    /\ max_storage = ExMaxStorage
    /\ storage_cost = Tenths(ExStorageCost)
    /\ injection_withdrawal_cost = Tenths(ExInjectionWithdrawalCost)
    /\ transportation_cost = Tenths(ExTransportationCost)

\* C3: on the example all 6 events go through, the storage duration is 6
\* month ends, and the value is 9,300,000 - 6,300,000 - 600,000 - 60,000
\* - 300,000 = 2,040,000.
C3_ExampleValue ==
    IsExample =>
        /\ pc # "error"
        /\ Skipped = {}
        /\ pc = "done" =>
              /\ si = 3 /\ sw = 3 /\ Len(trace) = 6
              /\ total_sales_revenue = Tenths(9300000)
              /\ total_purchase_cost = Tenths(6300000)
              /\ total_storage_cost = Tenths(600000)
              /\ total_storage_cost = storage_cost * 6
              /\ total_injection_withdrawal_cost = Tenths(60000)
              /\ total_transportation_cost = Tenths(300000)
              /\ contract_value = Tenths(2040000)

C3_Witness == IsExample /\ pc = "done"

\* C4: on a date of both schedules the withdrawal check follows the
\* injection check of the same iteration, and its guard reads the volume
\* that the injection attempt left.
C4_InjectionBeforeWithdrawal ==
    \A k \in DOMAIN trace :
        (trace[k].kind = "wd" /\ trace[k].date \in Range(injection_dates)) =>
            /\ k > 1
            /\ trace[k - 1].kind = "inj"
            /\ trace[k - 1].date = trace[k].date
            /\ trace[k - 1].iter = trace[k].iter
            /\ trace[k].before = trace[k - 1].after
            /\ trace[k].ok <=> (trace[k - 1].after[1] >= withdrawal_rate)

\* C4 witness: a withdrawal that went through only because the injection of
\* the same date came first.
C4_Witness ==
    \E k \in DOMAIN trace :
        /\ k > 1
        /\ trace[k].kind = "wd" /\ trace[k].ok
        /\ trace[k - 1].kind = "inj" /\ trace[k - 1].ok
        /\ trace[k - 1].date = trace[k].date
        /\ trace[k - 1].before[1] < withdrawal_rate

\* C5: with an empty withdrawal schedule the call does not fail in the
\* month-count step (line 66), and an empty schedule leaves its accumulator
\* at zero.
C5_EmptyScheduleHandled ==
    /\ withdrawal_dates = << >> => error.line # 66
    /\ withdrawal_dates = << >> => total_sales_revenue = 0
    /\ injection_dates = << >> => total_purchase_cost = 0

\* C5, the part that holds: an empty schedule leaves its accumulator at zero.
C5_EmptyScheduleAccumulatorZero ==
    /\ withdrawal_dates = << >> => total_sales_revenue = 0
    /\ injection_dates = << >> => total_purchase_cost = 0

Schedule(kind) == IF kind = "inj" THEN injection_dates ELSE withdrawal_dates

UnitPrices(kind) == IF kind = "inj" THEN purchase_prices ELSE sale_prices

Rate(kind) == IF kind = "inj" THEN injection_rate ELSE withdrawal_rate

\* The accumulator an event of this kind adds to: 2 is total_purchase_cost,
\* 3 is total_sales_revenue in Snapshot
Accumulator(kind) == IF kind = "inj" THEN 2 ELSE 3

\* C9: every distinct date of the two schedules is visited exactly once, in
\* strictly ascending order; per date at most one injection and one
\* withdrawal is attempted, and it reads the unit price at the first list
\* position of that date.
C9_DatesOnceAscendingFirstMatch ==
    /\ \A j, k \in DOMAIN visited : j < k => DateLT(visited[j], visited[k])
    /\ Range(visited) \subseteq Range(injection_dates) \cup Range(withdrawal_dates)
    /\ LoopOver =>
           Range(visited) = Range(injection_dates) \cup Range(withdrawal_dates)
    /\ \A j, k \in DOMAIN trace :
           (trace[j].kind = trace[k].kind /\ trace[j].date = trace[k].date)
               => j = k
    /\ \A k \in DOMAIN trace :
           LET e == trace[k]
               a == Accumulator(e.kind)
           IN  /\ e.index \in DOMAIN Schedule(e.kind)
               /\ Schedule(e.kind)[e.index] = e.date
               /\ \A j \in 1..(e.index - 1) : Schedule(e.kind)[j] # e.date
               /\ e.ok => e.after[a] - e.before[a]
                             = Rate(e.kind) * UnitPrices(e.kind)[e.index]

\* C9 witness: the call is over, the injection list holds one date twice and
\* that injection went through, and the withdrawal list is out of order.
C9_Witness ==
    /\ pc = "done"
    /\ \E j, k \in DOMAIN injection_dates :
           /\ j < k
           /\ injection_dates[j] = injection_dates[k]
           /\ \E n \in DOMAIN trace :
                  /\ trace[n].kind = "inj" /\ trace[n].ok
                  /\ trace[n].date = injection_dates[j]
    /\ \E j, k \in DOMAIN withdrawal_dates :
           j < k /\ DateLT(withdrawal_dates[k], withdrawal_dates[j])

Performed(kind) == {k \in DOMAIN trace : trace[k].kind = kind /\ trace[k].ok}

\* C10: with si performed injections and sw performed withdrawals so far,
\* volume = injection_rate * si - withdrawal_rate * sw and each of the two
\* per-operation totals is its unit cost times (si + sw); refused events
\* add to none of them.
C10_Accounting ==
    /\ si = Cardinality(Performed("inj"))
    /\ sw = Cardinality(Performed("wd"))
    /\ volume = injection_rate * si - withdrawal_rate * sw
    /\ total_injection_withdrawal_cost = injection_withdrawal_cost * (si + sw)
    /\ total_transportation_cost = transportation_cost * (si + sw)

\* C10 witness: injections and withdrawals were performed and others refused.
C10_Witness ==
    /\ pc = "done"
    /\ si >= 1 /\ sw >= 1
    /\ \E k \in Skipped : trace[k].kind = "inj"
    /\ \E k \in Skipped : trace[k].kind = "wd"


---------------------------------------------------------------------------
(* Properties of estimate_price and extrapolate_future_prices              *)

Extrapolated == last_call.fn = "extrapolate_future_prices"

\* The returned dates: as many as asked for, each a month end, each the month
\* after the one before, and all after the last historical date
FutureDatesAsSpecified(months) ==
    /\ result.tag = "DataFrame"
    /\ Len(result.Dates) = months
    /\ Len(result.Prices) = months
    /\ \A k \in 1..months :
          /\ result.Dates[k] = MonthEnd(result.Dates[k][1], result.Dates[k][2])
          /\ DateLT(MaxDate(data.Dates), result.Dates[k])
    /\ \A k \in 1..(months - 1) :
          /\ DateLT(result.Dates[k], result.Dates[k + 1])
          /\ <<result.Dates[k + 1][1], result.Dates[k + 1][2]>>
                = MonthPlus(result.Dates[k][1], result.Dates[k][2], 1)

\* C6: extrapolate_future_prices(data, 0) returns an empty sequence, and for
\* N >= 1 it returns exactly N entries whose dates are strictly increasing
\* month ends one calendar month apart, all after the last historical date.
C6_ExtrapolateCountAndDates ==
    Extrapolated => FutureDatesAsSpecified(last_call.arg)

\* C6, the part that holds: the case N >= 1.
C6_PositiveMonths ==
    (Extrapolated /\ last_call.arg >= 1) => FutureDatesAsSpecified(last_call.arg)

Estimated == last_call.fn = "estimate_price"

\* C7: a query date within [min_date, max_date] takes the interpolation
\* branch, and a query date that is an observed date, the two ends included,
\* gets that observation's price exactly.
C7_InRangeInterpolatesExactly ==
    (/\ Estimated
     /\ DateLE(MinDate(data.Dates), last_call.arg)
     /\ DateLE(last_call.arg, MaxDate(data.Dates)))
        => /\ branch = "interp"
           /\ result.tag = "float"
           /\ \A k \in DOMAIN data.Dates :
                 data.Dates[k] = last_call.arg
                     => result.value[1] = data.Prices[k] * result.value[2]

\* C7 witness: a series of at least three points with differing prices was
\* queried at its last date.
C7_Witness ==
    /\ Estimated
    /\ Len(data.Dates) >= 3
    /\ last_call.arg = MaxDate(data.Dates)
    /\ data.Prices[1] # data.Prices[Len(data.Prices)]
    /\ branch = "interp"

\* C8: a call of extrapolate_future_prices leaves the caller's price series,
\* its columns and its values, as it was.
C8_ExtrapolateLeavesDataAlone ==
    [][(ncalls' = ncalls + 1 /\ last_call'.fn = "extrapolate_future_prices")
          => data' = data]_vars

=============================================================================
